---- MODULE Spec2Model ----
(***************************************************************************)
(* Model of scripts/update_scores.py: the README score/freshness updater.  *)
(*                                                                         *)
(* Text is modelled as a sequence of tokens.  The markers the code looks   *)
(* for (":fire:", ":zzz:", ":hourglass:", "]", "(", ")", "/", "#", the     *)
(* "https://github.com/" prefix) are one token each, a space is a token,   *)
(* and every other run of characters is an opaque token.  str.replace,     *)
(* str.count, str.split, re.search, re.sub and `in` are computed on the    *)
(* token sequence the way Python computes them on characters.              *)
(*                                                                         *)
(* Optional values (int | None, str | None) are sequences: <<>> is None    *)
(* and <<v>> is the value v.  Line positions are 1-based here (Python's    *)
(* enumerate() is 0-based).  Time is counted in ticks.                     *)
(***************************************************************************)
EXTENDS Integers, Sequences, FiniteSets, TLC

\* ------------------------------------------------------------------------
\* Program constants
\* ------------------------------------------------------------------------
MAX_CONCURRENT == 10

\* str(e)[:50]
ERROR_MSG_LEN == 50

\* 365 * 3 and 365 * 2 in score_freshness
DORMANT_DAYS == 365 * 3

AGING_DAYS == 365 * 2

\* ------------------------------------------------------------------------
\* Bounds of the model
\* ------------------------------------------------------------------------
\* Clock ticks per day (sub-day resolution, so that timedelta.days truncates).
TicksPerDay == 2

\* Longest line given to the line patcher in SpecPatch.
MaxLineLen == 4

\* Lines per document in the pipeline specification.
NumLines == 2

\* Ticks the clock may advance during one run.
MaxTicks == 1

\* Worklist size in the orchestrator specification (above MAX_CONCURRENT).
NumRepos == 11

\* ------------------------------------------------------------------------
\* Tokens
\* ------------------------------------------------------------------------
SP == " "

FIRE == ":fire:"

ZZZ == ":zzz:"

HOURGLASS == ":hourglass:"

RB == "]"

LB == "["

LP == "("

RP == ")"

SLASH == "/"

HASH == "#"

GH == "https://github.com/"

None == <<>>

Some(v) == <<v>>

\* ------------------------------------------------------------------------
\* Python string primitives on token sequences
\* ------------------------------------------------------------------------
Min(a, b) == IF a < b THEN a ELSE b

\* s[:n]
Truncate(s, n) == SubSeq(s, 1, Min(n, Len(s)))

\* tok * n
Repeat(tok, n) == [i \in 1..n |-> tok]

\* s.startswith(old)
StartsWith(s, old) == Len(s) >= Len(old) /\ SubSeq(s, 1, Len(old)) = old

\* old in s
Contains(s, old) == \E i \in 1..(Len(s) - Len(old) + 1) : SubSeq(s, i, i + Len(old) - 1) = old

\* s.count(tok) for a one-token needle
RECURSIVE Count(_, _)
Count(s, tok) ==
    IF s = <<>> THEN 0
    ELSE (IF Head(s) = tok THEN 1 ELSE 0) + Count(Tail(s), tok)

\* s.replace(old, new), old non-empty: every non-overlapping occurrence, left to right
RECURSIVE Replace(_, _, _)
Replace(s, old, new) ==
    IF Len(s) < Len(old) THEN s
    ELSE IF StartsWith(s, old)
         THEN new \o Replace(SubSeq(s, Len(old) + 1, Len(s)), old, new)
         ELSE <<Head(s)>> \o Replace(Tail(s), old, new)

\* re.sub(old, new, s, count=1) for a literal pattern: the first occurrence only
RECURSIVE ReplaceFirst(_, _, _)
ReplaceFirst(s, old, new) ==
    IF Len(s) < Len(old) THEN s
    ELSE IF StartsWith(s, old)
         THEN new \o SubSeq(s, Len(old) + 1, Len(s))
         ELSE <<Head(s)>> \o ReplaceFirst(Tail(s), old, new)

\* s.split(sep) for a one-token separator: the sequence of segments
RECURSIVE Split(_, _)
Split(s, sep) ==
    IF \A i \in 1..Len(s) : s[i] # sep THEN <<s>>
    ELSE LET k == CHOOSE i \in 1..Len(s) : s[i] = sep /\ \A j \in 1..(i - 1) : s[j] # sep
         IN  <<SubSeq(s, 1, k - 1)>> \o Split(SubSeq(s, k + 1, Len(s)), sep)

\* ------------------------------------------------------------------------
\* Score Calculator
\* ------------------------------------------------------------------------
score_repo(stars) ==
    IF stars < 100 THEN 0
    ELSE IF stars < 200 THEN 1
    ELSE IF stars < 500 THEN 2
    ELSE IF stars < 1000 THEN 3
    ELSE IF stars < 2000 THEN 4
    ELSE 5

\* (now - last_pushed).days: whole days, rounded towards minus infinity
DaysStale(now, pushed) == (now - pushed) \div TicksPerDay

\* score_freshness with >= where the code has >
score_freshness_ge(last_pushed, now) ==
    IF last_pushed = None THEN <<>>
    ELSE IF DaysStale(now, last_pushed[1]) >= DORMANT_DAYS THEN <<SP, ZZZ>>
    ELSE IF DaysStale(now, last_pushed[1]) >= AGING_DAYS THEN <<SP, HOURGLASS>>
    ELSE <<>>

\* score_freshness with the value datetime.now() returned made explicit
score_freshness(last_pushed, now) ==
    IF last_pushed = None THEN <<>>
    ELSE IF DaysStale(now, last_pushed[1]) > DORMANT_DAYS THEN <<SP, ZZZ>>
    ELSE IF DaysStale(now, last_pushed[1]) > AGING_DAYS THEN <<SP, HOURGLASS>>
    ELSE <<>>

\* ------------------------------------------------------------------------
\* Line Patcher
\* ------------------------------------------------------------------------
update_repo_score(line, stars) ==
    LET cached_score == Count(line, FIRE)
        score == score_repo(stars)
        prefix == IF cached_score = 0 THEN <<SP>> ELSE <<>>
        cached_fires == Repeat(FIRE, cached_score)
        fires == Repeat(FIRE, score)
    IN  IF score # cached_score
        THEN Replace(line, cached_fires \o <<RB>>, prefix \o fires \o <<RB>>)
        ELSE line

\* update_repo_freshness inserting before the first "]" instead of the first "]("
update_repo_freshness_anybracket(line, last_pushed, now) ==
    LET freshness == score_freshness(last_pushed, now)
        stripped == Replace(Replace(line, <<SP, ZZZ>>, <<>>), <<SP, HOURGLASS>>, <<>>)
    IN  IF freshness # <<>>
        THEN ReplaceFirst(stripped, <<RB>>, freshness \o <<RB>>)
        ELSE stripped

update_repo_freshness(line, last_pushed, now) ==
    LET freshness == score_freshness(last_pushed, now)
        stripped == Replace(Replace(line, <<SP, ZZZ>>, <<>>), <<SP, HOURGLASS>>, <<>>)
    IN  IF freshness # <<>>
        THEN ReplaceFirst(stripped, <<RB, LP>>, freshness \o <<RB, LP>>)
        ELSE stripped

\* ------------------------------------------------------------------------
\* URL Extractor
\* ------------------------------------------------------------------------
REPOS_EXCLUDE_SCORE ==
    { <<GH, "donnemartin">>,
      <<GH, "donnemartin", SLASH, "awesome", "-aws">>,
      <<GH, "sindresorhus", SLASH, "awesome">>,
      <<GH, "kilimchoi", SLASH, "engineering-blogs">>,
      <<GH, "aws", SLASH, "aws-sdk-go", SLASH, "wiki">>,
      <<HASH>> }

\* s[:k] where k is the position of the first tok in s, or all of s: "[^)]*"
RECURSIVE UpTo(_, _)
UpTo(s, tok) ==
    IF s = <<>> \/ Head(s) = tok THEN <<>>
    ELSE <<Head(s)>> \o UpTo(Tail(s), tok)

\* re.search(r'(https://github.com/[^)]*)', line): None, or the matched text
SearchUrl(line) ==
    IF \A i \in 1..Len(line) : line[i] # GH THEN None
    ELSE LET k == CHOOSE i \in 1..Len(line) : line[i] = GH /\ \A j \in 1..(i - 1) : line[j] # GH
         IN  Some(<<GH>> \o UpTo(SubSeq(line, k + 1, Len(line)), RP))

\* IsExcluded comparing the whole URL instead of looking for a substring
IsExcluded_exact(url) == url \in REPOS_EXCLUDE_SCORE

\* any(substr in url for substr in REPOS_EXCLUDE_SCORE)
IsExcluded(url) == \E substr \in REPOS_EXCLUDE_SCORE : Contains(url, substr)

\* The characters of a URL as far as split('/') sees them
RECURSIVE UrlChars(_)
UrlChars(url) ==
    IF url = <<>> THEN <<>>
    ELSE (IF Head(url) = GH THEN <<"https:", SLASH, SLASH, "github.com", SLASH>> ELSE <<Head(url)>>)
         \o UrlChars(Tail(url))

\* (user_login, repo_name): tokens[3], tokens[4] of url.split('/'), or (None, None)
extract_repo_params(url) ==
    LET tokens == Split(UrlChars(url), SLASH)
    IN  IF Len(tokens) >= 5 THEN <<Some(tokens[4]), Some(tokens[5])>> ELSE <<None, None>>

\* Python truthiness of an optional string: neither None nor ""
Truthy(opt) == opt # None /\ opt[1] # <<>>

\* The worklist main() builds from lines[from..]: (idx, user_login, repo_name, url)
RECURSIVE ScanLines(_, _)
ScanLines(ls, from) ==
    IF from > Len(ls) THEN <<>>
    ELSE LET match == SearchUrl(ls[from])
             url == match[1]
             params == extract_repo_params(url)
         IN  (IF match = None THEN <<>>
              ELSE IF IsExcluded(url) THEN <<>>
              ELSE IF Truthy(params[1]) /\ Truthy(params[2])
                   THEN << [idx |-> from, owner |-> params[1][1], repo |-> params[2][1], url |-> url] >>
                   ELSE <<>>)
             \o ScanLines(ls, from + 1)

\* ------------------------------------------------------------------------
\* Repository Fetcher
\* ------------------------------------------------------------------------
RATE_LIMITED == Some(<<"Rate limited">>)

\* What client.get() can do: answer with a status (and, on 200, a body), time
\* out, or raise another fault carrying a message.
HttpResponse(code, ratelimit, stars, pushed) ==
    [kind |-> "http", code |-> code, ratelimit |-> ratelimit, stars |-> stars, pushed |-> pushed, msg |-> <<>>]

TimeoutException ==
    [kind |-> "timeout", code |-> 0, ratelimit |-> FALSE, stars |-> 0, pushed |-> None, msg |-> <<>>]

Fault(msg) ==
    [kind |-> "fault", code |-> 0, ratelimit |-> FALSE, stars |-> 0, pushed |-> None, msg |-> msg]

RepoResult(line_idx, url, stars, pushed_at, error) ==
    [line_idx |-> line_idx, url |-> url, stars |-> stars, pushed_at |-> pushed_at, error |-> error]

\* The RepoResult fetch_repo_info returns for what client.get() did
fetch_repo_info(resp, url, line_idx) ==
    IF resp.kind = "timeout" THEN RepoResult(line_idx, url, None, None, Some(<<"Timeout">>))
    ELSE IF resp.kind = "fault"
         THEN RepoResult(line_idx, url, None, None, Some(Truncate(resp.msg, ERROR_MSG_LEN)))
    ELSE IF resp.code = 404 THEN RepoResult(line_idx, url, None, None, Some(<<"Not found">>))
    ELSE IF resp.code = 403
         THEN IF resp.ratelimit
              THEN RepoResult(line_idx, url, None, None, RATE_LIMITED)
              ELSE RepoResult(line_idx, url, None, None, Some(<<"Forbidden">>))
    ELSE IF resp.code # 200
         THEN RepoResult(line_idx, url, None, None, Some(<<"HTTP ", ToString(resp.code)>>))
    ELSE RepoResult(line_idx, url, Some(resp.stars), resp.pushed, None)

\* ------------------------------------------------------------------------
\* State
\* ------------------------------------------------------------------------
VARIABLES
    file,            \* README.md on disk: a sequence of lines
    input,           \* README.md as it was when the run began
    writes,          \* how many times README.md has been written back
    pc,              \* where main() is: start, fetch, patch, done, aborted, crashed, idle
    lines,           \* main(): the lines in memory
    repos_to_fetch,  \* main(): the worklist
    status,          \* per worklist entry, its fetch_repo_info task: queued, inflight, done
    results,         \* fetch_all_repos(): the RepoResults collected so far
    idx,             \* main(): position of the patch loop
    repos_broken,    \* main(): URLs whose fetch failed
    clock,           \* what datetime.now() returns
    remote,          \* per worklist entry, what client.get() can do for it
    freshness_log,   \* per patched line, the clock value and tag score_freshness used
    in_line,         \* function under test: the line argument
    in_stars,        \* function under test: the stars argument
    in_pushed,       \* function under test: the last_pushed argument
    trace            \* function under test: the values returned so far

vars ==
    <<file, input, writes, pc, lines, repos_to_fetch, status, results, idx, repos_broken,
      clock, remote, freshness_log, in_line, in_stars, in_pushed, trace>>

mainVars == <<file, input, writes, pc, lines, repos_to_fetch, status, results, idx, repos_broken, remote, freshness_log>>

callVars == <<in_line, in_stars, in_pushed, trace>>

\* ------------------------------------------------------------------------
\* Inputs
\* ------------------------------------------------------------------------
\* The clock when the run begins: a pushed_at of 0 is DORMANT_DAYS whole days
\* old, one tick before the next day starts
StartClock == (DORMANT_DAYS + 1) * TicksPerDay - 1

Link(annotation, url) == <<LB, "repo">> \o annotation \o <<RB, LP>> \o url \o <<RP>>

RepoUrl == <<GH, "acme", SLASH, "repo">>

LineSamples ==
    { Link(<<>>, RepoUrl),
      Link(<<SP, FIRE, SP, ZZZ>>, RepoUrl),
      Link(<<SP, FIRE, SP, ZZZ>>, <<GH, "sindresorhus", SLASH, "awesome", "-nodejs">>),
      Link(<<>>, <<GH, "acme", SLASH, "repo", HASH, "readme">>),
      Link(<<SP, FIRE>>, <<GH, "acme">>),
      <<"text", SP, RB>> }

StarsSamples == {150, 2500}

PushedSamples == {None, Some(0)}

LongMessage == [i \in 1..(ERROR_MSG_LEN + 1) |-> "m"]

Responses ==
    { HttpResponse(200, FALSE, s, p) : s \in StarsSamples, p \in PushedSamples }
    \cup { HttpResponse(404, FALSE, 0, None), HttpResponse(403, TRUE, 0, None),
           HttpResponse(403, FALSE, 0, None), HttpResponse(500, FALSE, 0, None),
           TimeoutException, Fault(<<>>), Fault(LongMessage) }

\* ------------------------------------------------------------------------
\* main(): read and scan
\* ------------------------------------------------------------------------
IdleCalls == in_line = <<>> /\ in_stars = 0 /\ in_pushed = None /\ trace = <<>>

Init ==
    /\ file \in [1..NumLines -> LineSamples]
    /\ input = file
    /\ writes = 0
    /\ pc = "start"
    /\ lines = <<>>
    /\ repos_to_fetch = <<>>
    /\ status = <<>>
    /\ results = {}
    /\ idx = 1
    /\ repos_broken = <<>>
    /\ clock = StartClock
    /\ remote = [i \in 1..NumLines |-> Responses]
    /\ freshness_log = <<>>
    /\ IdleCalls

ReadAndScan ==
    /\ pc = "start"
    /\ lines' = file
    /\ repos_to_fetch' = ScanLines(file, 1)
    /\ status' = [i \in 1..Len(repos_to_fetch') |-> "queued"]
    /\ pc' = "fetch"
    /\ UNCHANGED <<file, input, writes, results, idx, repos_broken, clock, remote, freshness_log>>
    /\ UNCHANGED callVars

\* ------------------------------------------------------------------------
\* Fetch Orchestrator
\* ------------------------------------------------------------------------
InFlight == Cardinality({i \in DOMAIN status : status[i] = "inflight"})

\* SemaphoreFree letting one task too many in
SemaphoreFree_offbyone == InFlight <= MAX_CONCURRENT

\* asyncio.Semaphore(MAX_CONCURRENT): acquire() passes while a slot is free
SemaphoreFree == InFlight < MAX_CONCURRENT

\* async with semaphore: ... await client.get(): the task takes a slot and issues its request
Acquire(i) ==
    /\ pc = "fetch"
    /\ status[i] = "queued"
    /\ SemaphoreFree
    /\ status' = [status EXCEPT ![i] = "inflight"]
    /\ UNCHANGED <<file, input, writes, pc, lines, repos_to_fetch, results, idx, repos_broken, clock, remote, freshness_log>>
    /\ UNCHANGED callVars

\* client.get() answers, times out or fails; fetch_repo_info returns its RepoResult,
\* leaving the semaphore, and as_completed hands it to results.append
Complete(i) ==
    /\ pc = "fetch"
    /\ status[i] = "inflight"
    /\ \E resp \in remote[repos_to_fetch[i].idx] :
          results' = results \cup {fetch_repo_info(resp, repos_to_fetch[i].url, repos_to_fetch[i].idx)}
    /\ status' = [status EXCEPT ![i] = "done"]
    /\ UNCHANGED <<file, input, writes, pc, lines, repos_to_fetch, idx, repos_broken, clock, remote, freshness_log>>
    /\ UNCHANGED callVars

\* AllFetched returning after the first task to complete
AllFetched_first == \E i \in DOMAIN status : status[i] = "done"

\* The as_completed loop has yielded every task
AllFetched == \A i \in DOMAIN status : status[i] = "done"

\* fetch_all_repos returns to main()
Join ==
    /\ pc = "fetch"
    /\ AllFetched
    /\ pc' = "patch"
    /\ UNCHANGED <<file, input, writes, lines, repos_to_fetch, status, results, idx, repos_broken, clock, remote, freshness_log>>
    /\ UNCHANGED callVars

\* ------------------------------------------------------------------------
\* main(): patch loop and write-back
\* ------------------------------------------------------------------------
\* {r.line_idx: r for r in results}
results_by_idx == [i \in {r.line_idx : r \in results} |-> CHOOSE r \in results : r.line_idx = i]

\* IsRateLimited looking for a message fetch_repo_info never produces
IsRateLimited_never(r) == r.error = Some(<<"Rate limit">>)

IsRateLimited(r) == r.error = RATE_LIMITED

InLoop == pc = "patch" /\ idx <= Len(lines)

\* if idx in results_by_idx: false
SkipLine ==
    /\ InLoop
    /\ idx \notin DOMAIN results_by_idx
    /\ idx' = idx + 1
    /\ UNCHANGED <<file, input, writes, pc, lines, repos_to_fetch, status, results, repos_broken, clock, remote, freshness_log>>
    /\ UNCHANGED callVars

\* if r.error == "Rate limited": sys.exit(1)
AbortRateLimited ==
    /\ InLoop
    /\ idx \in DOMAIN results_by_idx
    /\ IsRateLimited(results_by_idx[idx])
    /\ pc' = "aborted"
    /\ UNCHANGED <<file, input, writes, lines, repos_to_fetch, status, results, idx, repos_broken, clock, remote, freshness_log>>
    /\ UNCHANGED callVars

\* elif r.error: repos_broken.append(r.url)
RecordBroken ==
    /\ InLoop
    /\ idx \in DOMAIN results_by_idx
    /\ ~IsRateLimited(results_by_idx[idx])
    /\ Truthy(results_by_idx[idx].error)
    /\ repos_broken' = Append(repos_broken, results_by_idx[idx].url)
    /\ idx' = idx + 1
    /\ UNCHANGED <<file, input, writes, pc, lines, repos_to_fetch, status, results, clock, remote, freshness_log>>
    /\ UNCHANGED callVars

\* else: update_repo_score(line, r.stars), with r.stars an int
PatchLine ==
    /\ InLoop
    /\ idx \in DOMAIN results_by_idx
    /\ LET r == results_by_idx[idx]
       IN  /\ ~IsRateLimited(r)
           /\ ~Truthy(r.error)
           /\ r.stars # None
           /\ lines' = [lines EXCEPT ![idx] =
                  update_repo_freshness(update_repo_score(lines[idx], r.stars[1]), r.pushed_at, clock)]
           /\ freshness_log' = freshness_log \o
                  << [idx |-> idx, pushed_at |-> r.pushed_at,
                      now |-> IF r.pushed_at = None THEN None ELSE Some(clock),
                      tag |-> score_freshness(r.pushed_at, clock)] >>
    /\ idx' = idx + 1
    /\ UNCHANGED <<file, input, writes, pc, repos_to_fetch, status, results, repos_broken, clock, remote>>
    /\ UNCHANGED callVars

\* else: update_repo_score(line, None): score_repo raises TypeError on None < 100
RaiseTypeError ==
    /\ InLoop
    /\ idx \in DOMAIN results_by_idx
    /\ LET r == results_by_idx[idx]
       IN  /\ ~IsRateLimited(r)
           /\ ~Truthy(r.error)
           /\ r.stars = None
    /\ pc' = "crashed"
    /\ UNCHANGED <<file, input, writes, lines, repos_to_fetch, status, results, idx, repos_broken, clock, remote, freshness_log>>
    /\ UNCHANGED callVars

\* with open(DEFAULT_README_PATH, 'w') as f: ...
WriteBack ==
    /\ pc = "patch"
    /\ idx > Len(lines)
    /\ file' = lines
    /\ writes' = writes + 1
    /\ pc' = "done"
    /\ UNCHANGED <<input, lines, repos_to_fetch, status, results, idx, repos_broken, clock, remote, freshness_log>>
    /\ UNCHANGED callVars

\* Time passes between two iterations of the patch loop
Tick ==
    /\ pc = "patch"
    /\ clock < StartClock + MaxTicks
    /\ clock' = clock + 1
    /\ UNCHANGED mainVars
    /\ UNCHANGED callVars

Next ==
    \/ ReadAndScan
    \/ \E i \in DOMAIN status : Acquire(i)
    \/ \E i \in DOMAIN status : Complete(i)
    \/ Join
    \/ SkipLine
    \/ AbortRateLimited
    \/ RecordBroken
    \/ PatchLine
    \/ RaiseTypeError
    \/ WriteBack
    \/ Tick

Spec == Init /\ [][Next]_vars

\* ------------------------------------------------------------------------
\* The orchestrator on a worklist larger than MAX_CONCURRENT
\* ------------------------------------------------------------------------
\* One outcome per repository, running through the kinds of outcome
OutcomeOf(i) ==
    IF i % 4 = 0 THEN HttpResponse(200, FALSE, 150, None)
    ELSE IF i % 4 = 1 THEN HttpResponse(404, FALSE, 0, None)
    ELSE IF i % 4 = 2 THEN TimeoutException
    ELSE Fault(<<"connection reset">>)

InitFetch ==
    /\ file = [i \in 1..NumRepos |-> <<GH, "acme", SLASH, ToString(i)>>]
    /\ input = file
    /\ writes = 0
    /\ pc = "start"
    /\ lines = <<>>
    /\ repos_to_fetch = <<>>
    /\ status = <<>>
    /\ results = {}
    /\ idx = 1
    /\ repos_broken = <<>>
    /\ clock = StartClock
    /\ remote = [i \in 1..NumRepos |-> {OutcomeOf(i)}]
    /\ freshness_log = <<>>
    /\ IdleCalls

NextFetch ==
    \/ ReadAndScan
    \/ \E i \in DOMAIN status : Acquire(i)
    \/ \E i \in DOMAIN status : Complete(i)
    \/ Join

SpecFetch == InitFetch /\ [][NextFetch]_vars

\* ------------------------------------------------------------------------
\* The line patcher applied to a line, twice over
\* ------------------------------------------------------------------------
PatchTokens == {"x", SP, FIRE, ZZZ, HOURGLASS, RB, LP}

PatchLines == UNION { [1..n -> PatchTokens] : n \in 0..MaxLineLen }

PatchStars == {50, 150, 300}

PatchPushed ==
    { None,
      Some(StartClock - (AGING_DAYS + 1) * TicksPerDay),
      Some(StartClock - (DORMANT_DAYS + 1) * TicksPerDay) }

IdleMain ==
    /\ file = <<>>
    /\ input = <<>>
    /\ writes = 0
    /\ pc = "idle"
    /\ lines = <<>>
    /\ repos_to_fetch = <<>>
    /\ status = <<>>
    /\ results = {}
    /\ idx = 1
    /\ repos_broken = <<>>
    /\ remote = <<>>
    /\ freshness_log = <<>>

InitPatch ==
    /\ IdleMain
    /\ clock = StartClock
    /\ in_line \in PatchLines
    /\ in_stars \in PatchStars
    /\ in_pushed \in PatchPushed
    /\ trace = <<>>

\* The text the next sub-operation is given
Current == IF trace = <<>> THEN in_line ELSE trace[Len(trace)]

\* lines[idx] = update_repo_score(line, r.stars)
CallScore ==
    /\ pc = "idle"
    /\ Len(trace) \in {0, 2}
    /\ trace' = Append(trace, update_repo_score(Current, in_stars))
    /\ UNCHANGED <<in_line, in_stars, in_pushed, clock>>
    /\ UNCHANGED mainVars

\* lines[idx] = update_repo_freshness(lines[idx], r.pushed_at)
CallFreshness ==
    /\ pc = "idle"
    /\ Len(trace) \in {1, 3}
    /\ trace' = Append(trace, update_repo_freshness(Current, in_pushed, clock))
    /\ UNCHANGED <<in_line, in_stars, in_pushed, clock>>
    /\ UNCHANGED mainVars

NextPatch == CallScore \/ CallFreshness

SpecPatch == InitPatch /\ [][NextPatch]_vars

\* ------------------------------------------------------------------------
\* score_freshness on every last_pushed around the thresholds
\* ------------------------------------------------------------------------
InitFresh ==
    /\ IdleMain
    /\ clock = StartClock
    /\ in_line = <<>>
    /\ in_stars = 0
    /\ in_pushed \in {None} \cup
           { Some(t) : t \in (StartClock - (DORMANT_DAYS + 2) * TicksPerDay)..(StartClock + TicksPerDay) }
    /\ trace = <<>>

CallScoreFreshness ==
    /\ pc = "idle"
    /\ trace = <<>>
    /\ trace' = <<score_freshness(in_pushed, clock)>>
    /\ UNCHANGED <<in_line, in_stars, in_pushed, clock>>
    /\ UNCHANGED mainVars

NextFresh == CallScoreFreshness

SpecFresh == InitFresh /\ [][NextFresh]_vars

\* ------------------------------------------------------------------------
\* Properties
\* ------------------------------------------------------------------------
Range(f) == {f[i] : i \in DOMAIN f}

AfterFetch == pc \in {"patch", "done", "aborted", "crashed"}

HasRateLimited == \E r \in results : r.error = RATE_LIMITED

\* C1: once a fetch has returned the rate-limited result, README.md is never
\* written: no write-back has happened, the run has not completed, and the
\* patch loop cannot reach its end, where the write-back would follow.
C1_RateLimitedNeverWrites ==
    HasRateLimited => /\ writes = 0
                      /\ file = input
                      /\ pc # "done"
                      /\ ~(pc = "patch" /\ idx > Len(lines))

\* C1 witness: the run aborted on a rate-limited second line after it had
\* patched the first line in memory.
C1_Witness ==
    /\ pc = "aborted"
    /\ idx = 2
    /\ lines # input
    /\ writes = 0

\* C3: a fetch error other than rate-limiting never stops the run, leaves its
\* own line as it was, and is in the broken-repository report once the patch
\* loop has passed its line.
C3_ErrorsAreLocal ==
    AfterFetch =>
        \A r \in results :
            (r.error # None /\ r.error # RATE_LIMITED) =>
                /\ pc # "crashed"
                /\ lines[r.line_idx] = input[r.line_idx]
                /\ (idx > r.line_idx => r.url \in Range(repos_broken))

\* C5: two lines patched in one run with the same lastPushed got the same
\* staleness tag, as they must when one reference time serves the whole run.
C5_OneReferenceTime ==
    \A i, j \in DOMAIN freshness_log :
        freshness_log[i].pushed_at = freshness_log[j].pushed_at =>
            freshness_log[i].tag = freshness_log[j].tag

\* The input lines whose GitHub URL contains an Exclusion Set substring
ExcludedLines ==
    { i \in DOMAIN input :
        /\ SearchUrl(input[i]) # None
        /\ \E substr \in REPOS_EXCLUDE_SCORE : Contains(SearchUrl(input[i])[1], substr) }

\* C6: a line whose URL contains an Exclusion Set substring is never in the
\* worklist, never gets a fetch or a Fetch Result, and its text in memory and
\* in the file stays its input text.
C6_Exclusion ==
    \A i \in ExcludedLines :
        /\ \A k \in DOMAIN repos_to_fetch : repos_to_fetch[k].idx # i
        /\ \A r \in results : r.line_idx # i
        /\ file[i] = input[i]
        /\ (pc # "start" => lines[i] = input[i])

\* C6 witness: the file was written with an annotated excluded line in it and
\* another line changed.
C6_Witness ==
    /\ pc = "done"
    /\ file # input
    /\ \E i \in ExcludedLines : Contains(input[i], <<FIRE, SP, ZZZ>>)

\* C8: when patching begins every worklist entry has exactly one Fetch Result,
\* carrying its own line position and URL, and no other result exists; until
\* then no line has been patched and nothing has been written.
C8_JoinBeforePatching ==
    /\ AfterFetch =>
          /\ \A k \in DOMAIN repos_to_fetch :
                /\ status[k] = "done"
                /\ Cardinality({r \in results : r.line_idx = repos_to_fetch[k].idx}) = 1
                /\ results_by_idx[repos_to_fetch[k].idx].url = repos_to_fetch[k].url
          /\ Cardinality(results) = Len(repos_to_fetch)
    /\ pc = "fetch" => (lines = input /\ idx = 1 /\ repos_broken = <<>>)
    /\ ~AfterFetch => (writes = 0 /\ file = input)

\* C8 witness: two fetches were joined and the lines patched and written.
C8_Witness ==
    /\ pc = "done"
    /\ Len(repos_to_fetch) = NumLines
    /\ Len(freshness_log) = NumLines
    /\ file # input

\* C10: after the pipeline patched a line, the line carries score_repo(stars)
\* fire markers.
C10_FireCountIsScore ==
    \A k \in DOMAIN freshness_log :
        LET i == freshness_log[k].idx
        IN  Count(lines[i], FIRE) = score_repo(results_by_idx[i].stars[1])

Queued == {i \in DOMAIN status : status[i] = "queued"}

\* C9: never more than MAX_CONCURRENT requests are in flight; every outcome of
\* a fetch gives its slot back; while an entry waits, either a slot is free for
\* it or a request is in flight whose end frees one; every step of the fetch
\* phase moves one task forward, and the phase ends only when every entry has
\* issued its request. So every entry issues its request after finitely many
\* steps.
C9_BoundedFanOut ==
    /\ [](InFlight <= MAX_CONCURRENT)
    /\ []((pc = "fetch" /\ Queued # {}) =>
            \/ ENABLED (\E i \in DOMAIN status : Acquire(i))
            \/ ENABLED (\E i \in DOMAIN status : Complete(i)))
    /\ [](AfterFetch => Queued = {})
    /\ [][pc = "fetch" =>
            \/ pc' = "patch" /\ Queued = {} /\ InFlight = 0
            \/ \E i \in DOMAIN status :
                  /\ \A k \in DOMAIN status \ {i} : status'[k] = status[k]
                  /\ \/ status[i] = "queued" /\ status'[i] = "inflight" /\ InFlight' = InFlight + 1
                     \/ status[i] = "inflight" /\ status'[i] = "done" /\ InFlight' = InFlight - 1]_vars

\* C9 witness: every slot is taken while an entry still waits for one.
C9_Witness ==
    /\ pc = "fetch"
    /\ InFlight = MAX_CONCURRENT
    /\ Queued # {}

\* C2: patching a line a second time with the same Fetch Result changes nothing.
C2_Idempotent == Len(trace) = 4 => trace[4] = trace[2]

HasStaleText(line) == Contains(line, <<SP, ZZZ>>) \/ Contains(line, <<SP, HOURGLASS>>)

\* A "]" followed by a "(", directly or with nothing but staleness-marker text between
BracketThenParen(line) ==
    \E i, j \in DOMAIN line :
        /\ i < j
        /\ line[i] = RB
        /\ line[j] = LP
        /\ \A k \in (i + 1)..(j - 1) : line[k] \in {SP, ZZZ, HOURGLASS}

DaysAgo(d) == Some(clock - d * TicksPerDay)

\* C4 as stated: 1095 days old is dormant, 1094 and 730 are aging, 729 and an
\* absent lastPushed carry no tag.
C4_StatedBoundaries ==
    trace # <<>> =>
        /\ in_pushed = DaysAgo(1095) => trace[1] = <<SP, ZZZ>>
        /\ in_pushed = DaysAgo(1094) => trace[1] = <<SP, HOURGLASS>>
        /\ in_pushed = DaysAgo(730) => trace[1] = <<SP, HOURGLASS>>
        /\ in_pushed = DaysAgo(729) => trace[1] = <<>>
        /\ in_pushed = None => trace[1] = <<>>

\* C4 amended: the thresholds are strict.  1096 days old is dormant; 1095,
\* 1094 and 731 are aging; 730, 729 and an absent lastPushed carry no tag.
C4_StrictBoundaries ==
    trace # <<>> =>
        /\ in_pushed = DaysAgo(1096) => trace[1] = <<SP, ZZZ>>
        /\ in_pushed = DaysAgo(1095) => trace[1] = <<SP, HOURGLASS>>
        /\ in_pushed = DaysAgo(1094) => trace[1] = <<SP, HOURGLASS>>
        /\ in_pushed = DaysAgo(731) => trace[1] = <<SP, HOURGLASS>>
        /\ in_pushed = DaysAgo(730) => trace[1] = <<>>
        /\ in_pushed = DaysAgo(729) => trace[1] = <<>>
        /\ in_pushed = None => trace[1] = <<>>

\* C4 witness: score_freshness was called on a lastPushed exactly 1095 days old.
C4_Witness ==
    /\ trace = << <<SP, HOURGLASS>> >>
    /\ in_pushed = DaysAgo(1095)

====
